---- MODULE Spec2Model ----
(***************************************************************************)
(* Role-scoped user directory (Django REST backend, apps/Users).           *)
(*                                                                         *)
(* State: the users table, the authtoken table and the last HTTP request   *)
(* together with the response the view returned for it.  One action per    *)
(* view; every action is the whole handler, from authentication to the     *)
(* returned Response.                                                      *)
(***************************************************************************)
EXTENDS Integers, FiniteSets, Sequences, TLC

(* ------------------------------------------------------------------ bounds *)
\* users.id values handed out by the autoincrement primary key
MaxUsers == 2
\* token keys ever generated
MaxTokens == 2
\* largest retries argument passed to make_request
MaxRetries == 3

UserIds == 1..MaxUsers
Keys == 1..MaxTokens

(* ------------------------------------------------------------- role model *)
\* models.py UserRole: the four choices of User.role
Roles == {"admin", "student", "faculty", "staff"}

\* request values for a role field: the four choices, a string that is no
\* choice ("guest"), and NoRole for a body without the key
NoRole == "<absent>"
RoleInputs == Roles \cup {"guest", NoRole}

\* request.user of a request that did not authenticate
Anonymous == 0
\* a request without an Authorization header
NoKey == 0

VARIABLES
    users,      \* users table: id -> [role, is_active, is_staff, is_superuser]
    nextId,     \* next value of the autoincrement primary key of users
    tokens,     \* authtoken table: set of [key, user]
    nextKey,    \* next fresh token key
    response,   \* the last request and the Response returned for it
    before,     \* history: the tables as the last request found them
    prior,      \* history: the request served before the last one, see Remembered
    revoked,    \* history: the keys of the tokens logout_view has deleted
    credential, \* history: the key the last request carried, NoKey for none
    pc,         \* make_request: where the call stands
    retries,    \* make_request: the local retries, after the default is applied
    attempt,    \* make_request: the loop variable of for attempt in range(retries)
    reply,      \* make_request: the response requests.request returned
    result,     \* make_request: the dictionary the call returned
    trace,      \* history: what the call has done so far, in order
    service,    \* UserService: the token and current user it holds, and what
                \* its last call returned
    race        \* the requests in flight between their read and their save,
                \* and the order of their reads and saves

\* the variables of the client's make_request
clientVars == <<pc, retries, attempt, reply, result, trace>>

vars == <<users, nextId, tokens, nextKey, response, before, prior, revoked, credential,
          pc, retries, attempt, reply, result, trace, service, race>>

(* ----------------------------------------------------------- persistence *)
Exists(id) == id \in DOMAIN users

\* User.objects.create_user(...): a row with is_active, not staff
NewUser(role) ==
    [role |-> role, is_active |-> TRUE, is_staff |-> FALSE, is_superuser |-> FALSE]

\* User.objects.create_superuser(..., role='admin')
SuperUser ==
    [role |-> "admin", is_active |-> TRUE, is_staff |-> TRUE, is_superuser |-> TRUE]

\* instance.save(): write the row
Save(id, row) == [users EXCEPT ![id] = row]

\* instance.delete(): remove the row
DeleteRow(id) == [i \in DOMAIN users \ {id} |-> users[i]]

(* --------------------------------------------------------- authentication *)
\* token lookup by key
TokenOf(k) == {t \in tokens : t.key = k}

\* request.user for a request carrying key k: the token's user when the key
\* is bound and that user is active, Anonymous otherwise
Authenticate(k) ==
    IF \E t \in TokenOf(k) : users[t.user].is_active
    THEN (CHOOSE t \in TokenOf(k) : TRUE).user
    ELSE Anonymous

\* a Response: the request (view, request.user, the row it names, the role
\* in its body) and the status, the 'error' text, the listed ids, the token
\* key and the role options of the reply
Resp(op, actor, target, role, status, error) ==
    [op |-> op, actor |-> actor, target |-> target, role |-> role,
     status |-> status, error |-> error, users |-> {}, token |-> NoKey,
     roles |-> <<>>]

(* ---------------------------------------------------------------- history *)
\* prior when the request before the last one was no successful toggle or
\* role change
NoPrior == [op |-> "none", target |-> 0, role |-> NoRole, was |-> FALSE, tokens |-> {}]

\* what is remembered of the last request once the next one is served: a
\* successful toggle (with the is_active it found) or a successful role change
\* (with the role it wrote), and the token table that request found
Remembered ==
    IF response.op = "toggle_user_status" /\ response.status = 200
    THEN [op |-> response.op, target |-> response.target, role |-> NoRole,
          was |-> before.users[response.target].is_active, tokens |-> before.tokens]
    ELSE IF response.op = "change_user_role" /\ response.status = 200
    THEN [op |-> response.op, target |-> response.target, role |-> response.role,
          was |-> FALSE, tokens |-> before.tokens]
    ELSE NoPrior

\* every request shifts the history: the tables as the request found them, and
\* the request served before it
History ==
    /\ before' = [users |-> users, tokens |-> tokens, revoked |-> revoked]
    /\ prior' = Remembered
    /\ UNCHANGED clientVars

\* a request carrying key k that deletes no token
Carrying(k) ==
    /\ History
    /\ credential' = k
    /\ UNCHANGED revoked

(* ---------------------------------------------------------- unauthenticated *)
\* the reply to a request that does not authenticate: one status and one
\* message, whatever the reason
UnauthenticatedReply == <<401, "Authentication credentials were not provided or are invalid">>

\* permissions.IsAuthenticated denies the request before the view runs
Unauthenticated(op, k) ==
    /\ response' = Resp(op, Anonymous, 0, NoRole, UnauthenticatedReply[1], UnauthenticatedReply[2])
    /\ UNCHANGED <<users, nextId, tokens, nextKey>>
    /\ Carrying(k)

NoResponse == Resp("none", Anonymous, 0, NoRole, 0, "")

(* ------------------------------------------------- client: response handling *)
\* DjangoAPIService.default_retries, from API_RETRIES
default_retries == 3

\* response.content of an HTTP response: nothing, a JSON document (body is
\* what response.json() returns) or text that is no JSON
Empty == [kind |-> "empty", body |-> <<>>]
NotJson == [kind |-> "text", body |-> <<>>]
Json(body) == [kind |-> "json", body |-> body]

\* the status codes and bodies a server sends
Statuses == {200, 201, 204, 400, 403, 404, 500}
Contents ==
    {Empty, NotJson,
     Json([message |-> "done"]),
     Json([error |-> "Faculty can only deactivate students"]),
     Json([detail |-> "Not found."])}

\* no response received, no dictionary returned
NoReply == [status_code |-> 0, content |-> Empty]
NoResult == [success |-> FALSE, data |-> <<>>, error |-> <<>>, status_code |-> -1]

\* the dictionaries make_request returns
Success(data, status_code) ==
    [success |-> TRUE, data |-> data, error |-> <<>>, status_code |-> status_code]
Failure(error, status_code) ==
    [success |-> FALSE, data |-> <<>>, error |-> error, status_code |-> status_code]

\* success_result that takes a body it cannot parse for an empty one
success_result_ignores_parse(r) ==
    IF r.content.kind = "json"
    THEN Success(r.content.body, r.status_code)
    ELSE Success(<<>>, r.status_code)

\* make_request, status 200 or 201
success_result(r) ==
    IF r.content.kind # "empty"
    THEN IF r.content.kind = "json"
         THEN Success(r.content.body, r.status_code)
         ELSE Failure([detail |-> "Server returned invalid JSON response"], r.status_code)
    ELSE Success(<<>>, r.status_code)

\* error_result that reports every failure as an unknown error
error_result_drops_body(r) == Failure([detail |-> "Unknown error"], r.status_code)

\* make_request, any other status (the text for a body that is no JSON
\* also quotes the status code, left out here)
error_result(r) ==
    IF r.content.kind = "empty"
    THEN Failure([detail |-> "Unknown error"], r.status_code)
    ELSE IF r.content.kind = "json"
    THEN Failure(r.content.body, r.status_code)
    ELSE Failure([detail |-> "Server error (Status)"], r.status_code)

\* make_request, the dictionary returned for a response
handle(r) == IF r.status_code \in {200, 201} THEN success_result(r) ELSE error_result(r)

\* what a UserService call returned: the method, its 'success', the token
\* the service held when it was called, and the roles list for
\* get_available_roles
Returned(op, success, held, roles) ==
    [op |-> op, success |-> success, held |-> held, roles |-> roles]
NoReturn == Returned("none", FALSE, NoKey, <<>>)

(* ------------------------------------------------------ requests in flight *)
\* the most requests that are between their read and their save at once
MaxInFlight == 2

Handlers == 1..MaxInFlight

NoRow == [role |-> NoRole, is_active |-> FALSE, is_staff |-> FALSE, is_superuser |-> FALSE]

\* a handler that has not received its request
Idle == [pc |-> "idle", op |-> "none", key |-> NoKey, actor |-> Anonymous, target |-> 0,
         role |-> NoRole, loaded |-> NoRow, instance |-> NoRow]

\* no request in flight, nothing read or saved
NoRace == [handlers |-> [h \in Handlers |-> Idle], log |-> <<>>]

(* ------------------------------------------------------------------- Init *)
\* a fresh database holding the superuser (wipe_all.create_fresh_superuser)
Init ==
    /\ users = (1 :> SuperUser)
    /\ nextId = 2
    /\ tokens = {}
    /\ nextKey = 1
    /\ response = NoResponse
    /\ before = [users |-> users, tokens |-> tokens, revoked |-> {}]
    /\ prior = NoPrior
    /\ revoked = {}
    /\ credential = NoKey
    /\ pc = "idle"
    /\ retries = 0
    /\ attempt = 0
    /\ reply = NoReply
    /\ result = NoResult
    /\ trace = <<>>
    /\ service = [token |-> NoKey, current_user |-> 0, returned |-> NoReturn]
    /\ race = NoRace

(* ------------------------------------------------------------ toggle view *)
\* toggle_denial with the faculty branch not looking at the target's role
toggle_denial_faculty_any(current_user, target_id) ==
    IF target_id = current_user
    THEN <<400, "Cannot change your own status">>
    ELSE IF users[current_user].role \in {"admin", "faculty"}
    THEN <<200, "">>
    ELSE <<403, "Insufficient permissions to change user status">>

\* the permission checks of toggle_user_status, in the order of the code:
\* the status and the error of the reply, <<200, "">> when they pass
toggle_denial(current_user, target_id) ==
    IF target_id = current_user
    THEN <<400, "Cannot change your own status">>
    ELSE IF users[current_user].role = "admin"
    THEN <<200, "">>
    ELSE IF users[current_user].role = "faculty"
    THEN IF users[target_id].role # "student"
         THEN <<403, "Faculty can only deactivate students">>
         ELSE <<200, "">>
    ELSE <<403, "Insufficient permissions to change user status">>

\* toggle_row that also writes the default role
toggle_row_resets_role(target_user) ==
    [target_user EXCEPT !.is_active = ~target_user.is_active, !.role = "student"]

\* toggle_row that only ever deactivates
toggle_row_deactivates(target_user) == [target_user EXCEPT !.is_active = FALSE]

\* the row toggle_user_status saves
toggle_row(target_user) == [target_user EXCEPT !.is_active = ~target_user.is_active]

\* toggle_user_status that saves the flipped row before its permission checks
toggle_user_status_saves_first(k, user_id) ==
    LET current_user == Authenticate(k) IN
    IF current_user = Anonymous THEN Unauthenticated("toggle_user_status", k)
    ELSE
    /\ UNCHANGED <<nextId, tokens, nextKey>>
    /\ IF ~Exists(user_id)
       THEN /\ response' = Resp("toggle_user_status", current_user, user_id, NoRole, 404, "User not found")
            /\ UNCHANGED users
       ELSE LET d == toggle_denial(current_user, user_id) IN
            /\ response' = Resp("toggle_user_status", current_user, user_id, NoRole, d[1], d[2])
            /\ users' = Save(user_id, toggle_row(users[user_id]))
    /\ Carrying(k)

\* toggle_user_status that deletes the token of a user it deactivates
toggle_user_status_drops_token(k, user_id) ==
    LET current_user == Authenticate(k) IN
    IF current_user = Anonymous THEN Unauthenticated("toggle_user_status", k)
    ELSE
    /\ UNCHANGED <<nextId, nextKey>>
    /\ IF ~Exists(user_id)
       THEN /\ response' = Resp("toggle_user_status", current_user, user_id, NoRole, 404, "User not found")
            /\ UNCHANGED <<users, tokens>>
       ELSE LET d == toggle_denial(current_user, user_id) IN
            /\ response' = Resp("toggle_user_status", current_user, user_id, NoRole, d[1], d[2])
            /\ IF d[1] = 200
               THEN /\ users' = Save(user_id, toggle_row(users[user_id]))
                    /\ tokens' = {t \in tokens : t.user # user_id \/ ~users[user_id].is_active}
               ELSE UNCHANGED <<users, tokens>>
    /\ Carrying(k)

\* PATCH /users/{user_id}/toggle-status/
toggle_user_status(k, user_id) ==
    LET current_user == Authenticate(k) IN
    IF current_user = Anonymous THEN Unauthenticated("toggle_user_status", k)
    ELSE
    /\ UNCHANGED <<nextId, tokens, nextKey>>
    /\ IF ~Exists(user_id)
       THEN /\ response' = Resp("toggle_user_status", current_user, user_id, NoRole, 404, "User not found")
            /\ UNCHANGED users
       ELSE LET d == toggle_denial(current_user, user_id) IN
            /\ response' = Resp("toggle_user_status", current_user, user_id, NoRole, d[1], d[2])
            /\ IF d[1] = 200
               THEN users' = Save(user_id, toggle_row(users[user_id]))
               ELSE UNCHANGED users
    /\ Carrying(k)

(* ------------------------------------------------------- change-role view *)
\* change_denial without the guard against changing one's own role
change_denial_no_self_check(current_user, user_id, new_role) ==
    IF new_role = NoRole
    THEN <<400, "Role is required">>
    ELSE IF new_role \notin Roles
    THEN <<400, "Invalid role">>
    ELSE <<200, "">>

\* change_denial with the guard against one's own id ahead of the checks of
\* the role
change_denial_self_first(current_user, user_id, new_role) ==
    IF user_id = current_user
    THEN <<400, "Cannot change your own role">>
    ELSE IF new_role = NoRole
    THEN <<400, "Role is required">>
    ELSE IF new_role \notin Roles
    THEN <<400, "Invalid role">>
    ELSE <<200, "">>

\* the checks of change_user_role after the target was loaded: the status
\* and the error of the reply, <<200, "">> when they pass
change_denial(current_user, user_id, new_role) ==
    IF new_role = NoRole
    THEN <<400, "Role is required">>
    ELSE IF new_role \notin Roles
    THEN <<400, "Invalid role">>
    ELSE IF user_id = current_user
    THEN <<400, "Cannot change your own role">>
    ELSE <<200, "">>

\* change_row that also activates the user
change_row_activates(user, new_role) == [user EXCEPT !.role = new_role, !.is_active = TRUE]

\* the row change_user_role saves
change_row(user, new_role) == [user EXCEPT !.role = new_role]

\* PATCH /users/{user_id}/change-role/
change_user_role(k, user_id, new_role) ==
    LET current_user == Authenticate(k) IN
    IF current_user = Anonymous THEN Unauthenticated("change_user_role", k)
    ELSE
    /\ UNCHANGED <<nextId, tokens, nextKey>>
    /\ IF users[current_user].role # "admin"
       THEN /\ response' = Resp("change_user_role", current_user, user_id, new_role, 403, "Admin access required")
            /\ UNCHANGED users
       ELSE IF ~Exists(user_id)
       THEN /\ response' = Resp("change_user_role", current_user, user_id, new_role, 404, "User not found")
            /\ UNCHANGED users
       ELSE LET d == change_denial(current_user, user_id, new_role) IN
            /\ response' = Resp("change_user_role", current_user, user_id, new_role, d[1], d[2])
            /\ IF d[1] = 200
               THEN users' = Save(user_id, change_row(users[user_id], new_role))
               ELSE UNCHANGED users
    /\ Carrying(k)

(* ------------------------------------------------- list and create users *)
\* get_queryset with the student branch also listing staff
get_queryset_student_sees_staff(role) ==
    IF role = "admin"
    THEN DOMAIN users
    ELSE IF role = "faculty"
    THEN {i \in DOMAIN users : users[i].role \in {"faculty", "staff", "student"}}
    ELSE IF role = "staff"
    THEN {i \in DOMAIN users : users[i].role = "faculty"}
    ELSE IF role = "student"
    THEN {i \in DOMAIN users : users[i].role \in {"faculty", "staff", "student"}}
    ELSE {}

\* get_queryset with the staff branch also listing staff
get_queryset_staff_sees_staff(role) ==
    IF role = "admin"
    THEN DOMAIN users
    ELSE IF role = "faculty"
    THEN {i \in DOMAIN users : users[i].role \in {"faculty", "staff", "student"}}
    ELSE IF role = "staff"
    THEN {i \in DOMAIN users : users[i].role \in {"faculty", "staff"}}
    ELSE IF role = "student"
    THEN {i \in DOMAIN users : users[i].role \in {"faculty", "student"}}
    ELSE {}

\* UserListCreateView.get_queryset: the rows a requesting user of the given
\* role may list
get_queryset(role) ==
    IF role = "admin"
    THEN DOMAIN users
    ELSE IF role = "faculty"
    THEN {i \in DOMAIN users : users[i].role \in {"faculty", "staff", "student"}}
    ELSE IF role = "staff"
    THEN {i \in DOMAIN users : users[i].role = "faculty"}
    ELSE IF role = "student"
    THEN {i \in DOMAIN users : users[i].role \in {"faculty", "student"}}
    ELSE {}

\* GET /users/ (IsAdminOrCreateOnly: authenticated users only)
list_users(k) ==
    LET user == Authenticate(k) IN
    IF user = Anonymous THEN Unauthenticated("list_users", k)
    ELSE
    /\ response' = [Resp("list_users", user, 0, NoRole, 200, "") EXCEPT !.users = get_queryset(users[user].role)]
    /\ UNCHANGED <<users, nextId, tokens, nextKey>>
    /\ Carrying(k)

\* valid_role with the choices not enforced
valid_role_accepts_any(role) == TRUE

\* the role field of a ModelSerializer: a ChoiceField over UserRole.choices
valid_role(role) == role \in Roles

\* POST /users/ (public registration, UserCreateSerializer); passwords_ok
\* stands for the password and email validation of the body
create_user(role, passwords_ok) ==
    /\ nextId <= MaxUsers
    /\ UNCHANGED <<tokens, nextKey>>
    /\ IF passwords_ok /\ (role = NoRole \/ valid_role(role))
       THEN /\ users' = (nextId :> NewUser(IF role = NoRole THEN "student" ELSE role)) @@ users
            /\ nextId' = nextId + 1
            /\ response' = Resp("create_user", Anonymous, nextId, role, 201, "")
       ELSE /\ response' = Resp("create_user", Anonymous, 0, role, 400, "validation error")
            /\ UNCHANGED <<users, nextId>>
    /\ Carrying(NoKey)

(* ------------------------------------------------------------ role options *)
\* UserRole.choices: the (value, label) pairs in the order of declaration
UserRole_choices ==
    << <<"admin", "Admin">>, <<"student", "Student">>,
       <<"faculty", "Faculty">>, <<"staff", "Staff">> >>

\* str.title() on the role values
title(role) ==
    CASE role = "admin" -> "Admin"
      [] role = "student" -> "Student"
      [] role = "faculty" -> "Faculty"
      [] role = "staff" -> "Staff"

\* the options {'value': role, 'label': role.title()} for a list of roles
Options(allowed_roles) ==
    [i \in 1..Len(allowed_roles) |-> <<allowed_roles[i], title(allowed_roles[i])>>]

\* roles_of with the staff branch also offering staff
roles_of_staff_offers_staff(role) ==
    IF role = "admin"
    THEN UserRole_choices
    ELSE IF role = "faculty"
    THEN Options(<<"faculty", "staff", "student">>)
    ELSE IF role = "staff"
    THEN << <<"faculty", "Faculty">>, <<"staff", "Staff">> >>
    ELSE IF role = "student"
    THEN Options(<<"faculty", "student">>)
    ELSE <<>>

\* user_roles_view: the roles list for a requesting user of the given role
roles_of(role) ==
    IF role = "admin"
    THEN UserRole_choices
    ELSE IF role = "faculty"
    THEN Options(<<"faculty", "staff", "student">>)
    ELSE IF role = "staff"
    THEN << <<"faculty", "Faculty">> >>
    ELSE IF role = "student"
    THEN Options(<<"faculty", "student">>)
    ELSE <<>>

\* GET /roles/
user_roles_view(k) ==
    LET current_user == Authenticate(k) IN
    IF current_user = Anonymous THEN Unauthenticated("user_roles_view", k)
    ELSE
    /\ response' = [Resp("user_roles_view", current_user, 0, NoRole, 200, "")
                        EXCEPT !.roles = roles_of(users[current_user].role)]
    /\ UNCHANGED <<users, nextId, tokens, nextKey>>
    /\ Carrying(k)

\* the first option of every filter list
base_roles == << <<"", "All Roles">> >>

\* filter_roles_of with the all-roles option after the roles
filter_roles_of_all_last(role) ==
    (IF role = "admin"
     THEN << <<"admin", "Admins">>, <<"faculty", "Faculty">>,
             <<"staff", "Staff">>, <<"student", "Students">> >>
     ELSE IF role = "faculty"
     THEN << <<"faculty", "Faculty">>, <<"staff", "Staff">>, <<"student", "Students">> >>
     ELSE IF role = "staff"
     THEN << <<"faculty", "Faculty">> >>
     ELSE IF role = "student"
     THEN << <<"faculty", "Faculty">>, <<"student", "Students">> >>
     ELSE <<>>) \o base_roles

\* available_filter_roles: base_roles + filter_roles for a requesting user of
\* the given role
filter_roles_of(role) ==
    base_roles \o
    (IF role = "admin"
     THEN << <<"admin", "Admins">>, <<"faculty", "Faculty">>,
             <<"staff", "Staff">>, <<"student", "Students">> >>
     ELSE IF role = "faculty"
     THEN << <<"faculty", "Faculty">>, <<"staff", "Staff">>, <<"student", "Students">> >>
     ELSE IF role = "staff"
     THEN << <<"faculty", "Faculty">> >>
     ELSE IF role = "student"
     THEN << <<"faculty", "Faculty">>, <<"student", "Students">> >>
     ELSE <<>>)

\* GET /filter-roles/
available_filter_roles(k) ==
    LET current_user == Authenticate(k) IN
    IF current_user = Anonymous THEN Unauthenticated("available_filter_roles", k)
    ELSE
    /\ response' = [Resp("available_filter_roles", current_user, 0, NoRole, 200, "")
                        EXCEPT !.roles = filter_roles_of(users[current_user].role)]
    /\ UNCHANGED <<users, nextId, tokens, nextKey>>
    /\ Carrying(k)

(* ------------------------------------------------------------ detail view *)
\* UserDetailView.get_object: the row of the URL for staff and admins (0 when
\* it does not exist), the requesting user's own row for everybody else
get_object(user, pk) ==
    IF users[user].is_staff \/ users[user].role = "admin"
    THEN (IF Exists(pk) THEN pk ELSE 0)
    ELSE user

\* the row UserUpdateSerializer saves (fields username, email, role)
update_row(instance, role) ==
    IF role = NoRole THEN instance ELSE [instance EXCEPT !.role = role]

\* PUT/PATCH /users/{pk}/
update_user(k, pk, role) ==
    LET user == Authenticate(k) IN
    IF user = Anonymous THEN Unauthenticated("update_user", k)
    ELSE
    LET instance == get_object(user, pk) IN
    /\ UNCHANGED <<nextId, tokens, nextKey>>
    /\ IF instance = 0
       THEN /\ response' = Resp("update_user", user, pk, role, 404, "Not found.")
            /\ UNCHANGED users
       ELSE IF role # NoRole /\ ~valid_role(role)
       THEN /\ response' = Resp("update_user", user, instance, role, 400, "not a valid choice")
            /\ UNCHANGED users
       ELSE /\ response' = Resp("update_user", user, instance, role, 200, "")
            /\ users' = Save(instance, update_row(users[instance], role))
    /\ Carrying(k)

\* DELETE /users/{pk}/; the user's token goes with the row (on_delete CASCADE)
delete_user(k, pk) ==
    LET user == Authenticate(k) IN
    IF user = Anonymous THEN Unauthenticated("delete_user", k)
    ELSE
    LET instance == get_object(user, pk) IN
    /\ UNCHANGED <<nextId, nextKey>>
    /\ IF instance = 0
       THEN /\ response' = Resp("delete_user", user, pk, NoRole, 404, "Not found.")
            /\ UNCHANGED <<users, tokens>>
       ELSE /\ response' = Resp("delete_user", user, instance, NoRole, 204, "")
            /\ users' = DeleteRow(instance)
            /\ tokens' = {t \in tokens : t.user # instance}
    /\ Carrying(k)

(* ------------------------------------------------------- login and logout *)
\* get_or_create that creates a token on every call
get_or_create_always_creates(user) == [key |-> nextKey, user |-> user]

\* get_or_create that hands a deleted key out again
get_or_create_reuses_revoked(user) ==
    IF \E t \in tokens : t.user = user
    THEN CHOOSE t \in tokens : t.user = user
    ELSE [key |-> IF revoked # {} THEN CHOOSE k \in revoked : TRUE ELSE nextKey,
          user |-> user]

\* Token.objects.get_or_create(user=user): the token bound to the user, or a
\* new one under a fresh key
get_or_create(user) ==
    IF \E t \in tokens : t.user = user
    THEN CHOOSE t \in tokens : t.user = user
    ELSE [key |-> nextKey, user |-> user]

\* UserLoginSerializer.validate: 0 for valid credentials, the error otherwise.
\* match is the user the email and password belong to (0: nobody);
\* backend_rejects_inactive tells whether authenticate() itself turns an
\* inactive user away, as the configured backend decides
login_error(match, backend_rejects_inactive) ==
    IF match = 0 \/ (~users[match].is_active /\ backend_rejects_inactive)
    THEN "Invalid credentials"
    ELSE IF ~users[match].is_active
    THEN "User account is disabled"
    ELSE ""

\* POST /auth/login/
login_view(match, backend_rejects_inactive) ==
    /\ UNCHANGED <<users, nextId>>
    /\ LET err == login_error(match, backend_rejects_inactive) IN
       IF err = ""
       THEN LET token == get_or_create(match) IN
            /\ token.key <= MaxTokens
            /\ tokens' = tokens \cup {token}
            /\ nextKey' = IF token \in tokens THEN nextKey ELSE nextKey + 1
            /\ response' = [Resp("login_view", match, match, NoRole, 200, "") EXCEPT !.token = token.key]
       ELSE /\ response' = Resp("login_view", Anonymous, match, NoRole, 400, err)
            /\ UNCHANGED <<tokens, nextKey>>
    /\ Carrying(NoKey)

\* logout_view that answers 200 and leaves the token in the table
logout_view_keeps_token(k) ==
    LET user == Authenticate(k) IN
    IF user = Anonymous THEN Unauthenticated("logout_view", k)
    ELSE
    /\ response' = Resp("logout_view", user, 0, NoRole, 200, "")
    /\ UNCHANGED <<users, nextId, tokens, nextKey>>
    /\ History
    /\ credential' = k
    /\ revoked' = revoked \cup {t.key : t \in {u \in tokens : u.user = user}}

\* POST /auth/logout/: request.user.auth_token.delete()
logout_view(k) ==
    LET user == Authenticate(k) IN
    IF user = Anonymous THEN Unauthenticated("logout_view", k)
    ELSE
    /\ tokens' = {t \in tokens : t.user # user}
    /\ response' = Resp("logout_view", user, 0, NoRole, 200, "")
    /\ UNCHANGED <<users, nextId, nextKey>>
    /\ History
    /\ credential' = k
    /\ revoked' = revoked \cup {t.key : t \in {u \in tokens : u.user = user}}

\* the keys a request may carry: every key and no Authorization header
Credentials == Keys \cup {NoKey}

\* the URL ids and body roles tried with key k; a request that does not
\* authenticate is answered before either is read, so one of each stands for all
IdsWith(k) == IF Authenticate(k) = Anonymous THEN {1} ELSE UserIds
RolesWith(k) == IF Authenticate(k) = Anonymous THEN {NoRole} ELSE RoleInputs

Next ==
    \/ \E k \in Credentials : \E id \in IdsWith(k) : toggle_user_status(k, id) /\ UNCHANGED <<service, race>>
    \/ \E k \in Credentials : \E id \in IdsWith(k), r \in RolesWith(k) : change_user_role(k, id, r) /\ UNCHANGED <<service, race>>
    \/ \E k \in Credentials : list_users(k) /\ UNCHANGED <<service, race>>
    \/ \E r \in RoleInputs, ok \in BOOLEAN : create_user(r, ok) /\ UNCHANGED <<service, race>>
    \/ \E k \in Credentials : \E id \in IdsWith(k), r \in RolesWith(k) : update_user(k, id, r) /\ UNCHANGED <<service, race>>
    \/ \E k \in Credentials : \E id \in IdsWith(k) : delete_user(k, id) /\ UNCHANGED <<service, race>>
    \/ \E m \in DOMAIN users \cup {0}, b \in BOOLEAN : login_view(m, b) /\ UNCHANGED <<service, race>>
    \/ \E k \in Credentials : logout_view(k) /\ UNCHANGED <<service, race>>
    \/ \E k \in Credentials : user_roles_view(k) /\ UNCHANGED <<service, race>>
    \/ \E k \in Credentials : available_filter_roles(k) /\ UNCHANGED <<service, race>>

Spec == Init /\ [][Next]_vars

(***************************************************************************)
(* The client: DjangoAPIService.make_request, one action per step of a     *)
(* call.  The server's tables stay as Init leaves them.                    *)
(***************************************************************************)
serverVars == <<users, nextId, tokens, nextKey, response, before, prior, revoked, credential>>

\* the values of the retries argument: 0 stands for the argument left out
\* (None) and for 0, which `retries or self.default_retries` treats alike
RetriesArgs == -1..MaxRetries

\* make_request(method, endpoint, data, retries=arg): a new call; with
\* range(retries) empty the loop body never runs and the call returns the
\* dictionary after the loop
make_request(arg) ==
    /\ pc \in {"idle", "done"}
    /\ retries' = IF arg = 0 THEN default_retries ELSE arg
    /\ attempt' = 0
    /\ reply' = NoReply
    /\ trace' = <<>>
    /\ IF retries' > 0
       THEN /\ pc' = "request"
            /\ result' = NoResult
       ELSE /\ pc' = "done"
            /\ result' = Failure([detail |-> "Unexpected error occurred"], 0)
    /\ UNCHANGED serverVars

\* requests.request returned a response: the call returns at once
respond(status_code, content) ==
    /\ pc = "request"
    /\ reply' = [status_code |-> status_code, content |-> content]
    /\ result' = handle(reply')
    /\ trace' = Append(trace, "response")
    /\ pc' = "done"
    /\ UNCHANGED <<retries, attempt>>
    /\ UNCHANGED serverVars

\* the test of the two except branches with the last attempt never recognised
more_attempts_always == TRUE

\* if attempt < retries - 1
more_attempts == attempt < retries - 1

\* requests.request raised ConnectionError or Timeout: sleep and go on, or
\* give up after the last attempt
transport_failure(exception) ==
    /\ pc = "request"
    /\ trace' = Append(trace, exception)
    /\ IF more_attempts
       THEN /\ pc' = "sleep"
            /\ UNCHANGED result
       ELSE /\ pc' = "done"
            /\ result' = Failure([detail |->
                              IF exception = "ConnectionError"
                              THEN "Connection error: Unable to connect to server"
                              ELSE "Request timeout: Server is not responding"], 0)
    /\ UNCHANGED <<retries, attempt, reply>>
    /\ UNCHANGED serverVars

\* requests.request raised another RequestException: the call returns at once
request_exception ==
    /\ pc = "request"
    /\ trace' = Append(trace, "RequestException")
    /\ result' = Failure([detail |-> "Network error"], 0)
    /\ pc' = "done"
    /\ UNCHANGED <<retries, attempt, reply>>
    /\ UNCHANGED serverVars

\* time.sleep(1); continue: the next round of the for loop, or the return
\* after the loop when range(retries) is used up
sleep ==
    /\ pc = "sleep"
    /\ trace' = Append(trace, "sleep")
    /\ attempt' = attempt + 1
    /\ IF attempt + 1 < retries
       THEN /\ pc' = "request"
            /\ UNCHANGED result
       ELSE /\ pc' = "done"
            /\ result' = Failure([detail |-> "Unexpected error occurred"], 0)
    /\ UNCHANGED <<retries, reply>>
    /\ UNCHANGED serverVars

NextClient ==
    \/ \E arg \in RetriesArgs : make_request(arg) /\ UNCHANGED <<service, race>>
    \/ \E status_code \in Statuses, content \in Contents : respond(status_code, content) /\ UNCHANGED <<service, race>>
    \/ \E exception \in {"ConnectionError", "Timeout"} : transport_failure(exception) /\ UNCHANGED <<service, race>>
    \/ request_exception /\ UNCHANGED <<service, race>>
    \/ sleep /\ UNCHANGED <<service, race>>

SpecClient == Init /\ [][NextClient]_vars

(* --------------------------------------------------- client: UserService *)
\* dict.get(key, default)
Get(d, key, default) == IF key \in DOMAIN d THEN d[key] ELSE default

\* UserService.toggle_user_status: what it returns for the dictionary r that
\* make_request returned
UserService_toggle_user_status(r) ==
    IF r.success
    THEN [success |-> TRUE, error |-> ""]
    ELSE [success |-> FALSE, error |-> Get(r.error, "detail", "Failed to toggle user status")]

\* UserService.change_user_role: what it returns for the dictionary r that
\* make_request returned
UserService_change_user_role(r) ==
    IF r.success
    THEN [success |-> TRUE, error |-> ""]
    ELSE [success |-> FALSE, error |-> Get(r.error, "detail", "Failed to change user role")]

\* the HTTP response of toggle_user_status and change_user_role to a request
\* they turn down: Response({'error': reason}, status=...)
Denial(resp) == [status_code |-> resp.status, content |-> Json([error |-> resp.error])]

(***************************************************************************)
(* The session of one client: UserService on top of make_request.  A call  *)
(* either reaches the server, which handles it as in Spec, or ends in a    *)
(* connectivity failure without the server seeing the request.  Requests   *)
(* of other clients go on as in Spec.                                      *)
(***************************************************************************)
\* the request did not reach the server: no table and no history changes
NotReached == UNCHANGED serverVars /\ UNCHANGED clientVars

\* UserService.login(email, password)
UserService_login(match, backend_rejects_inactive, reached) ==
    IF reached
    THEN /\ login_view(match, backend_rejects_inactive)
         /\ service' =
                IF response'.status = 200
                THEN [token |-> response'.token, current_user |-> match,
                      returned |-> Returned("login", TRUE, service.token, <<>>)]
                ELSE [service EXCEPT !.returned = Returned("login", FALSE, service.token, <<>>)]
    ELSE /\ NotReached
         /\ service' = [service EXCEPT !.returned = Returned("login", FALSE, service.token, <<>>)]

\* UserService.logout(): with a token held, the request is sent, the local
\* state is cleared and success is returned, whatever make_request returned
UserService_logout(reached) ==
    IF service.token = NoKey
    THEN /\ NotReached
         /\ service' = [service EXCEPT !.returned = Returned("logout", FALSE, NoKey, <<>>)]
    ELSE /\ IF reached THEN logout_view(service.token) ELSE NotReached
         /\ service' = [token |-> NoKey, current_user |-> 0,
                        returned |-> Returned("logout", TRUE, service.token, <<>>)]

\* [{'value': role.value, 'label': role.value.title()} for role in UserRole]
local_roles == Options(<<"admin", "student", "faculty", "staff">>)

\* UserService.get_available_roles(): the server's list on success, the
\* local list otherwise
UserService_get_available_roles(reached) ==
    IF reached
    THEN /\ user_roles_view(service.token)
         /\ service' = [service EXCEPT !.returned =
                Returned("get_available_roles", TRUE, service.token,
                         IF response'.status = 200 THEN response'.roles ELSE local_roles)]
    ELSE /\ NotReached
         /\ service' = [service EXCEPT !.returned =
                Returned("get_available_roles", TRUE, service.token, local_roles)]

NextSession ==
    \/ \E m \in DOMAIN users \cup {0}, b, reached \in BOOLEAN : UserService_login(m, b, reached) /\ UNCHANGED race
    \/ \E reached \in BOOLEAN : UserService_logout(reached) /\ UNCHANGED race
    \/ \E reached \in BOOLEAN : UserService_get_available_roles(reached) /\ UNCHANGED race
    \/ \E r \in Roles : create_user(r, TRUE) /\ UNCHANGED <<service, race>>
    \/ \E m \in DOMAIN users : login_view(m, TRUE) /\ UNCHANGED <<service, race>>
    \/ \E k \in Keys : \E id \in IdsWith(k) : toggle_user_status(k, id) /\ UNCHANGED <<service, race>>

SpecSession == Init /\ [][NextSession]_vars

(***************************************************************************)
(* Requests in parallel.  toggle_user_status and change_user_role take no  *)
(* lock and open no transaction: each reads the target with                *)
(* User.objects.get, checks, assigns one attribute of the instance it read *)
(* and calls save().  A granted request is therefore two steps, the read   *)
(* with its checks and the save, and the steps of different requests       *)
(* interleave.  A request that is turned down writes nothing and is served *)
(* in one step.                                                            *)
(***************************************************************************)
RaceOps == {"toggle_user_status", "change_user_role"}

\* the request passes authentication, the lookup and every check of its view
granted(k, op, user_id, new_role) ==
    LET current_user == Authenticate(k) IN
    /\ current_user # Anonymous
    /\ Exists(user_id)
    /\ IF op = "toggle_user_status"
       THEN toggle_denial(current_user, user_id)[1] = 200
       ELSE /\ users[current_user].role = "admin"
            /\ change_denial(current_user, user_id, new_role)[1] = 200

\* save() that writes only the columns the view assigned
persist_assigned_columns(stored, loaded, instance) ==
    [f \in DOMAIN stored |-> IF instance[f] # loaded[f] THEN instance[f] ELSE stored[f]]

\* user.save() without update_fields: an UPDATE of every column of the row
\* from the instance, whatever the row holds by now
persist(stored, loaded, instance) == instance

\* the first half of a request: authentication, User.objects.get(id=user_id),
\* the checks, and the assignment to the instance
objects_get(h, k, op, user_id, new_role) ==
    /\ race.handlers[h].pc = "idle"
    /\ IF granted(k, op, user_id, new_role)
       THEN /\ race' = [handlers |-> [race.handlers EXCEPT ![h] =
                            [pc |-> "loaded", op |-> op, key |-> k, actor |-> Authenticate(k),
                             target |-> user_id, role |-> new_role,
                             loaded |-> users[user_id],
                             instance |-> IF op = "toggle_user_status"
                                          THEN toggle_row(users[user_id])
                                          ELSE change_row(users[user_id], new_role)]],
                        log |-> Append(race.log, <<"get", h>>)]
            /\ UNCHANGED serverVars
            /\ UNCHANGED clientVars
       ELSE /\ IF op = "toggle_user_status"
               THEN toggle_user_status(k, user_id)
               ELSE change_user_role(k, user_id, new_role)
            /\ UNCHANGED race
    /\ UNCHANGED service

\* the second half: user.save() and the Response
user_save(h) ==
    LET r == race.handlers[h] IN
    /\ r.pc = "loaded"
    /\ users' = Save(r.target, persist(users[r.target], r.loaded, r.instance))
    /\ response' = Resp(r.op, r.actor, r.target, r.role, 200, "")
    /\ Carrying(r.key)
    /\ race' = [handlers |-> [race.handlers EXCEPT ![h].pc = "saved"],
                log |-> Append(race.log, <<"save", h>>)]
    /\ UNCHANGED <<nextId, tokens, nextKey, service>>

NextRace ==
    \/ \E r \in Roles : create_user(r, TRUE) /\ UNCHANGED <<service, race>>
    \/ \E m \in DOMAIN users : login_view(m, TRUE) /\ UNCHANGED <<service, race>>
    \/ \E h \in Handlers, k \in Keys, op \in RaceOps, r \in Roles :
          \E id \in DOMAIN users : objects_get(h, k, op, id, IF op = "toggle_user_status" THEN NoRole ELSE r)
    \/ \E h \in Handlers : user_save(h)

SpecRace == Init /\ [][NextRace]_vars

(***************************************************************************)
(* Properties.  A request is read off response (what was asked, by whom,   *)
(* and the reply), the tables it found off before, the tables it left off  *)
(* users and tokens.                                                       *)
(***************************************************************************)
\* the last request authenticated and reached the view op
Served(op) == response.op = op /\ response.actor # Anonymous

\* rows present both before and after the last request
Kept == DOMAIN before.users \cap DOMAIN users

\* C1: no request (change-role, toggle-status, profile update) issued by an
\* actor whose role is not admin changes the role of any identity, the
\* actor's own included.
C1_NonAdminNeverChangesRole ==
    (/\ response.actor # Anonymous
     /\ response.op \in {"change_user_role", "toggle_user_status", "update_user"}
     /\ before.users[response.actor].role # "admin")
    => \A i \in Kept : users[i].role = before.users[i].role

\* C2: toggle_user_status on an existing target flips is_active if and only
\* if actor id # target id and (the actor is admin, or the actor is faculty
\* and the target is a student); in every other case the request is denied
\* and nothing changes.
C2_ToggleIffPermitted ==
    (Served("toggle_user_status") /\ response.target \in DOMAIN before.users)
    => LET a == response.actor
           t == response.target
           permitted ==
               /\ a # t
               /\ \/ before.users[a].role = "admin"
                  \/ before.users[a].role = "faculty" /\ before.users[t].role = "student"
       IN IF permitted
          THEN /\ response.status = 200
               /\ users[t].is_active = ~before.users[t].is_active
          ELSE /\ response.status \in {400, 403}
               /\ users = before.users

\* C2 witness: a faculty actor has toggled a student
C2_Witness ==
    /\ Served("toggle_user_status")
    /\ response.status = 200
    /\ before.users[response.actor].role = "faculty"
    /\ before.users[response.target].role = "student"

\* C3: change_user_role with a valid requested role and an existing target
\* changes the target's role if and only if the actor is admin and actor id #
\* target id; an admin naming themselves and every non-admin are denied.
C3_ChangeRoleIffAdminOnOther ==
    (/\ Served("change_user_role")
     /\ response.target \in DOMAIN before.users
     /\ response.role \in Roles)
    => IF before.users[response.actor].role = "admin" /\ response.actor # response.target
       THEN /\ response.status = 200
            /\ users[response.target].role = response.role
       ELSE /\ response.status \in {400, 403}
            /\ users = before.users

\* C3 witness: an admin has changed another user's role to a new value
C3_Witness ==
    /\ Served("change_user_role")
    /\ response.status = 200
    /\ users[response.target].role # before.users[response.target].role

\* C4: an admin's own role is never changed by a request this admin issues,
\* through any endpoint.
C4_AdminKeepsOwnRole ==
    (/\ response.actor # Anonymous
     /\ response.actor \in Kept
     /\ before.users[response.actor].role = "admin")
    => users[response.actor].role = "admin"

\* the visibility sets as the claim C5 lists them
C5_VisibleRoles(role) ==
    CASE role = "admin" -> {"admin", "faculty", "staff", "student"}
      [] role = "faculty" -> {"faculty", "staff", "student"}
      [] role = "staff" -> {"faculty"}
      [] role = "student" -> {"faculty", "student"}
      [] OTHER -> {}

\* C5: the user listing returns exactly the stored identities whose role is
\* in the actor's visibility set, with no filtering by id or is_active; an
\* unrecognized actor role yields the empty list.
C5_ListingIsVisibilitySet ==
    /\ Served("list_users")
       => /\ response.status = 200
          /\ response.users =
                 {i \in DOMAIN users : users[i].role \in C5_VisibleRoles(users[response.actor].role)}
    /\ \A role \in RoleInputs \ Roles : get_queryset(role) = {}

\* C5 witness: a student listed a table that holds an admin and got only
\* their own row
C5_Witness ==
    /\ Served("list_users")
    /\ users[response.actor].role = "student"
    /\ \E i \in DOMAIN users : users[i].role = "admin"
    /\ response.users = {response.actor}

\* C6: a successful toggle leaves the target with is_active negated and
\* changes no other field of the target and no field of any other identity.
C6_ToggleFrame ==
    (Served("toggle_user_status") /\ response.status = 200)
    => LET t == response.target IN
       /\ DOMAIN users = DOMAIN before.users
       /\ users[t].is_active = ~before.users[t].is_active
       /\ users[t].role = before.users[t].role
       /\ users[t].is_staff = before.users[t].is_staff
       /\ users[t].is_superuser = before.users[t].is_superuser
       /\ \A i \in DOMAIN users \ {t} : users[i] = before.users[i]

\* C6 witness: a toggle has reactivated a user who holds the staff flag
C6_Witness ==
    /\ Served("toggle_user_status")
    /\ response.status = 200
    /\ users[response.target].is_active
    /\ users[response.target].is_staff

\* C7: two successful toggles applied one after the other to the same target
\* return is_active to its original value.
C7_ToggleTwiceRestores ==
    (/\ Served("toggle_user_status")
     /\ response.status = 200
     /\ prior.op = "toggle_user_status"
     /\ prior.target = response.target)
    => users[response.target].is_active = prior.was

\* C7 witness: the second of two successive toggles of one target was served
C7_Witness ==
    /\ Served("toggle_user_status")
    /\ response.status = 200
    /\ prior.op = "toggle_user_status"
    /\ prior.target = response.target
    /\ prior.was = TRUE

C9_ListedAfterChangeToStaff ==
    /\ Served("list_users")
    /\ response.status = 200
    /\ prior.op = "change_user_role"
    /\ prior.role = "staff"

C10_OneTokenPerIdentity ==
    /\ \A t1, t2 \in tokens : t1.user = t2.user => t1 = t2
    /\ (response.op = "login_view" /\ response.status = 200)
       => /\ [key |-> response.token, user |-> response.actor] \in tokens
          /\ \A t \in before.tokens : t.user = response.actor =>
                 (tokens = before.tokens /\ response.token = t.key)

\* C10 witness: a login was served for an identity that already held a token
C10_Witness ==
    /\ response.op = "login_view"
    /\ response.status = 200
    /\ \E t \in before.tokens : t.user = response.actor

\* a login was served for an identity that held a token
SecondLogin ==
    /\ response.op = "login_view"
    /\ response.status = 200
    /\ \E t \in before.tokens : t.user = response.actor

\* C11 as claimed: a second successful login for an identity that holds a
\* valid token creates an independent token, distinct from the prior one, and
\* the prior token stays valid.
C11_SecondLoginIndependentToken ==
    SecondLogin
    => /\ response.token \notin {t.key : t \in before.tokens}
       /\ before.tokens \subseteq tokens

\* C11 amended: a second successful login for an identity that holds a valid
\* token returns that token and creates none; the token stays bound, and a
\* token leaves the table only by a logout or by the deletion of its identity.
C11_SecondLoginReusesToken ==
    /\ SecondLogin
       => /\ response.token \in {t.key : t \in {u \in before.tokens : u.user = response.actor}}
          /\ Cardinality(tokens) = Cardinality(before.tokens)
          /\ before.tokens \subseteq tokens
    /\ before.tokens \subseteq tokens
       \/ /\ response.op \in {"logout_view", "delete_user"}
          /\ response.status \in {200, 204}

\* C11 witness: the second login returned the key of the first while another
\* request had been served in between
C11_Witness ==
    /\ SecondLogin
    /\ response.token = 1
    /\ nextKey = 2
    /\ Cardinality(DOMAIN users) = 2

\* C12: a key revoked by logout never resolves to an identity again: it stays
\* revoked, no token carries it, and a later login binds a different key.
C12_RevokedNeverResolves ==
    /\ before.revoked \subseteq revoked
    /\ \A k \in revoked : TokenOf(k) = {} /\ Authenticate(k) = Anonymous
    /\ (response.op = "login_view" /\ response.status = 200)
       => response.token \notin revoked

\* C12 witness: the only identity there ever was logged out and in again
C12_Witness ==
    /\ response.op = "login_view"
    /\ response.status = 200
    /\ nextId = 2
    /\ before.revoked # {}
    /\ response.token \notin {t.key : t \in before.tokens}

\* the views behind permissions.IsAuthenticated
AuthenticatedOps ==
    {"toggle_user_status", "change_user_role", "list_users", "update_user",
     "delete_user", "logout_view", "user_roles_view", "available_filter_roles"}

Values(options) == [i \in 1..Len(options) |-> options[i][1]]

\* the elements of a sequence
Range(seq) == {seq[i] : i \in 1..Len(seq)}

\* the assignable sets as the claim C19 lists them
C19_Assignable(role) ==
    CASE role = "admin" -> {"admin", "faculty", "staff", "student"}
      [] role = "faculty" -> {"faculty", "staff", "student"}
      [] role = "staff" -> {"faculty"}
      [] role = "student" -> {"faculty", "student"}
      [] OTHER -> {}

\* C19: the roles endpoint returns exactly the assignable set of the caller's
\* role, each role once, and the empty list for an unrecognized role.
C19_RolesAreAssignableSet ==
    /\ Served("user_roles_view")
       => /\ response.status = 200
          /\ Range(Values(response.roles)) = C19_Assignable(users[response.actor].role)
          /\ Len(response.roles) = Cardinality(C19_Assignable(users[response.actor].role))
    /\ \A role \in RoleInputs \ Roles : roles_of(role) = <<>>

\* C19 witness: a staff caller was offered the faculty role only
C19_Witness ==
    /\ Served("user_roles_view")
    /\ users[response.actor].role = "staff"
    /\ Values(response.roles) = <<"faculty">>

\* C20: the filter-roles endpoint returns the all-roles option (empty value)
\* first, then exactly one option per role of the caller's visibility set and
\* no other; a staff caller gets exactly ("", "All Roles"), ("faculty",
\* "Faculty").
C20_FilterRolesAreVisibleSet ==
    /\ Served("available_filter_roles")
       => LET role == users[response.actor].role
              rest == Tail(response.roles)
          IN /\ response.status = 200
             /\ Head(response.roles) = <<"", "All Roles">>
             /\ Range(Values(rest)) = C5_VisibleRoles(role)
             /\ Len(rest) = Cardinality(C5_VisibleRoles(role))
             /\ role = "staff"
                => response.roles = << <<"", "All Roles">>, <<"faculty", "Faculty">> >>
    /\ \A role \in RoleInputs \ Roles : filter_roles_of(role) = << <<"", "All Roles">> >>

\* C20 witness: a staff caller asked for the filter roles
C20_Witness ==
    /\ Served("available_filter_roles")
    /\ users[response.actor].role = "staff"
    /\ Len(response.roles) = 2

(* ------------------------------------------------ properties of the client *)
\* the requests sent and the sleeps taken by the call so far
Attempts == Cardinality({i \in 1..Len(trace) : trace[i] # "sleep"})
Sleeps == Cardinality({i \in 1..Len(trace) : trace[i] = "sleep"})

\* every attempt of the call so far ended in a connection error or a timeout
OnlyTransportFailures ==
    \A i \in 1..Len(trace) : trace[i] \in {"ConnectionError", "Timeout", "sleep"}

\* a response was received in the current call
Replied == pc # "idle" /\ trace # <<>> /\ "response" \in {trace[i] : i \in 1..Len(trace)}

\* C15: when every attempt ends in a connection error or timeout, make_request
\* with retry budget N >= 1 makes exactly N attempts with one wait between
\* consecutive attempts (N-1 waits, none after the last) and returns
\* success=false with status_code 0; it never makes more than N attempts.
C15_RetryBudgetExhausted ==
    /\ Attempts > 0 => Attempts <= retries
    /\ (pc = "done" /\ retries >= 1 /\ OnlyTransportFailures)
       => /\ Attempts = retries
          /\ Sleeps = retries - 1
          /\ \A i \in 1..Len(trace) : (trace[i] = "sleep") <=> (i % 2 = 0)
          /\ result.success = FALSE
          /\ result.status_code = 0
          /\ result.error \in {[detail |-> "Connection error: Unable to connect to server"],
                               [detail |-> "Request timeout: Server is not responding"]}

\* C15 witness: a call with the default budget gave up after a connection
\* error, a timeout and a connection error
C15_Witness ==
    /\ pc = "done"
    /\ retries = default_retries
    /\ trace = <<"ConnectionError", "sleep", "Timeout", "sleep", "ConnectionError">>

\* C16: a response with a failure status, on the first attempt or after
\* transport failures, ends make_request at once: success=false with the
\* response's parsed body and its status code, and no further attempt.
C16_FailureStatusReturnsAtOnce ==
    (Replied /\ reply.status_code >= 400)
    => /\ pc = "done"
       /\ trace[Len(trace)] = "response"
       /\ result.success = FALSE
       /\ result.status_code = reply.status_code
       /\ reply.content.kind = "json" => result.error = reply.content.body

\* C16 witness: a 403 with a JSON body arrived on the attempt after a
\* connection error
C16_Witness ==
    /\ pc = "done"
    /\ trace = <<"ConnectionError", "sleep", "response">>
    /\ reply.status_code = 403
    /\ result.error = [error |-> "Faculty can only deactivate students"]

\* C17: a response with a successful status and a non-empty body that cannot
\* be parsed makes make_request return at once with a parse failure
\* (success=false), without a retry.
C17_UnparseableSuccessIsParseFailure ==
    (Replied /\ reply.status_code \in {200, 201} /\ reply.content.kind = "text")
    => /\ pc = "done"
       /\ trace[Len(trace)] = "response"
       /\ Attempts <= retries
       /\ result = Failure([detail |-> "Server returned invalid JSON response"],
                           reply.status_code)

\* C17 witness: the first attempt got a 200 whose body is no JSON
C17_Witness ==
    /\ pc = "done"
    /\ trace = <<"response">>
    /\ reply = [status_code |-> 200, content |-> NotJson]

\* C18: when the server denies a toggle-status or change-role request or the
\* target is missing, the error UserService.toggle_user_status /
\* UserService.change_user_role return states the reason the server gave.
C18_DenialStatesReason ==
    /\ (Served("toggle_user_status") /\ response.status \in {400, 403, 404})
       => UserService_toggle_user_status(handle(Denial(response))).error = response.error
    /\ (Served("change_user_role") /\ response.status \in {400, 403, 404})
       => UserService_change_user_role(handle(Denial(response))).error = response.error

C22_DeleteIsAdminOnly ==
    (Served("delete_user") /\ before.users[response.actor].role # "admin")
    => DOMAIN users = DOMAIN before.users

C26_FailureChangesNothing ==
    (response.op \in {"toggle_user_status", "change_user_role"} /\ response.status # 200)
    => /\ users = before.users
       /\ tokens = before.tokens

\* C26 witness: a faculty user was refused the toggle of a user who is no
\* student
C26_Witness ==
    /\ Served("toggle_user_status")
    /\ response.status = 403
    /\ response.error = "Faculty can only deactivate students"

\* C29: a change_user_role call that finds at least one user with role admin
\* leaves at least one user with role admin.
C29_AnAdminRemains ==
    (/\ response.op = "change_user_role"
     /\ \E i \in DOMAIN before.users : before.users[i].role = "admin")
    => \E i \in DOMAIN users : users[i].role = "admin"

\* C29 witness: one of two admins took the role admin from the other
C29_Witness ==
    /\ Served("change_user_role")
    /\ response.status = 200
    /\ before.users[response.target].role = "admin"
    /\ users[response.target].role # "admin"

\* C30: toggle_user_status and change_user_role leave the token table as it
\* is; a user deactivated and reactivated by two toggles holds the token held
\* before.
C30_TokensUntouched ==
    /\ response.op \in {"toggle_user_status", "change_user_role"}
       => tokens = before.tokens
    /\ (/\ Served("toggle_user_status")
        /\ response.status = 200
        /\ prior.op = "toggle_user_status"
        /\ prior.target = response.target)
       => tokens = prior.tokens

\* C30 witness: a user holding a token was deactivated and reactivated
C30_Witness ==
    /\ Served("toggle_user_status")
    /\ response.status = 200
    /\ prior.op = "toggle_user_status"
    /\ prior.target = response.target
    /\ users[response.target].is_active
    /\ \E t \in tokens : t.user = response.target

\* C28: for every value of the retries argument make_request makes at least
\* one attempt and returns from inside the loop; the result 'Unexpected error
\* occurred' after the loop is never returned.
C28_FallThroughNeverReached ==
    pc = "done"
    => /\ Attempts >= 1
       /\ result.error # [detail |-> "Unexpected error occurred"]

(* ----------------------------------------------- properties of the session *)
\* C23: whenever UserService.logout returns success, the token the client
\* held is bound to nobody on the server and the client holds no token and no
\* current user, whatever the outcome of the request on the network.
C23_LogoutInvalidatesToken ==
    (service.returned.op = "logout" /\ service.returned.success)
    => /\ TokenOf(service.returned.held) = {}
       /\ service.token = NoKey
       /\ service.current_user = 0

\* C24: UserService.get_available_roles returns only roles the current user
\* can assign, whatever the outcome of the roles request.
C24_AvailableRolesAssignable ==
    (/\ service.returned.op = "get_available_roles"
     /\ service.current_user \in DOMAIN users)
    => Range(Values(service.returned.roles)) \subseteq C19_Assignable(users[service.current_user].role)

(* -------------------------------------------------- properties of the race *)
\* where in the log handler h's read or save stands, 0 when it has not happened
Pos(kind, h) ==
    IF \E i \in DOMAIN race.log : race.log[i] = <<kind, h>>
    THEN CHOOSE i \in DOMAIN race.log : race.log[i] = <<kind, h>>
    ELSE 0

\* the handlers that have saved target t
Savers(t) == {h \in Handlers : race.handlers[h].pc = "saved" /\ race.handlers[h].target = t}

\* the handler that saved target t last
LastSaver(t) == CHOOSE h \in Savers(t) : \A g \in Savers(t) : Pos("save", g) <= Pos("save", h)

\* the requests of h and g were in flight together: each read before the
\* other saved
Overlap(h, g) ==
    /\ Pos("get", h) < Pos("save", g)
    /\ Pos("get", g) < Pos("save", h)

\* C27: unlocked read-check-write requests on one target are last-write-wins
\* on the whole record: the stored row is the instance of whichever saved
\* last; a toggle that read before a concurrent role change saved and saves
\* after it restores the role it read; two overlapping toggles leave
\* is_active flipped once.
C27_LastWriteWins ==
    \A t \in DOMAIN users : Savers(t) # {} =>
        LET last == race.handlers[LastSaver(t)] IN
        /\ users[t] = last.instance
        /\ \A g \in Savers(t) \ {LastSaver(t)} :
              Overlap(LastSaver(t), g) =>
                 /\ (last.op = "toggle_user_status" /\ race.handlers[g].op = "change_user_role")
                       => /\ users[t].role = last.loaded.role
                          /\ users[t].is_active = ~last.loaded.is_active
                 /\ (last.op = "toggle_user_status" /\ race.handlers[g].op = "toggle_user_status"
                       /\ Savers(t) = {LastSaver(t), g})
                       => /\ race.handlers[g].loaded = last.loaded
                          /\ users[t].is_active = ~last.loaded.is_active
                          /\ users[t].is_active = race.handlers[g].instance.is_active

\* a toggle and a role change to another role overlapped on one target, the
\* toggle saved last, and the row holds the role the toggle read
C27_Witness ==
    \E t \in DOMAIN users : \E h, g \in Savers(t) :
        /\ h = LastSaver(t) /\ g # h
        /\ Overlap(h, g)
        /\ race.handlers[h].op = "toggle_user_status"
        /\ race.handlers[g].op = "change_user_role"
        /\ race.handlers[g].role # race.handlers[h].loaded.role
        /\ users[t].role = race.handlers[h].loaded.role
====
